---- MODULE Spec2Model ----
(***************************************************************************)
(* Authentication / session subsystem of the gbajs3 Workers API.           *)
(*                                                                         *)
(* State: the users table of the D1 database, the login requests that are  *)
(* between two awaits, the wall clock, the tokens handed out so far and    *)
(* the response sent by the latest step (Idle when that step sent none).   *)
(*                                                                         *)
(* Values.  UUIDs produced by crypto.randomUUID() are the naturals         *)
(* 1..MaxUUID handed out by a counter (never repeated); SQL NULL / JS      *)
(* null / undefined is NULL.  Strings that are concatenated (storage_dir,  *)
(* file names, object keys) are sequences of one-character strings.        *)
(*                                                                         *)
(* A JWT is [sub, store, exp, key]: its claim set plus the HMAC key under  *)
(* which its signature validates that claim set.  A token whose claims    *)
(* were edited after signing, or that was signed by a party who knows no   *)
(* server key, carries key = AttackerKey.                                  *)
(***************************************************************************)
EXTENDS Integers, Sequences, FiniteSets, TLC

\* ---------------------------------------------------------------- bounds
MaxUUID == 4
MaxInflight == 2
MaxTracked == 1

\* ------------------------------------------------------------- constants
NULL == 0
JwtSecret == 0 - 1
AttackerKey == 0 - 2
UnknownUUID == MaxUUID + 1
AccessTtl == 5 * 60
RefreshTtl == 7 * 60 * 60
CookieMaxAge == 7 * 60 * 60
FarFuture == 4 * RefreshTtl

\* Wall-clock readings (seconds) at which requests are served.  They sit
\* on both sides of the expiry of the tokens issued at 0.
Instants == {0, 299, 301, 25199, 25201}

\* -------------------------------------------------------------- strings
Dir1 == <<"d", "1">>
Dir2 == <<"d", "2">>
Dir3 == <<"d", "3">>
Dir4 == <<"d", "4">>
Dir5 == <<"d", "5">>
DirTilde == <<"d", "~">>
Empty == <<>>

StartsWith(s, p) == Len(s) >= Len(p) /\ SubSeq(s, 1, Len(p)) = p

\* ----------------------------------------------------------- users table
\* pass_hash is the stored string by what verifyPassword makes of it:
\*   "pbkdf2"    '<salt>:<digest>', both base64, of password pw;
\*   "bcrypt"    a legacy hash, leading '$2';
\*   "onefield"  no ':' in it, so split(':') yields one field;
\*   "badbase64" two non-empty fields, one of them not base64.
UserIds == 1..5

InitUsers ==
  [i \in UserIds |->
     CASE i = 1 -> [id |-> 1, username |-> "alice",
                    pass_hash |-> [fmt |-> "pbkdf2", pw |-> "pwA"],
                    token_slug |-> NULL, token_id |-> NULL, storage_dir |-> Dir1]
       [] i = 2 -> [id |-> 2, username |-> "bob",
                    pass_hash |-> [fmt |-> "pbkdf2", pw |-> "pwB"],
                    token_slug |-> NULL, token_id |-> NULL, storage_dir |-> Dir2]
       [] i = 3 -> [id |-> 3, username |-> "carol",
                    pass_hash |-> [fmt |-> "bcrypt", pw |-> "pwA"],
                    token_slug |-> NULL, token_id |-> NULL, storage_dir |-> Dir3]
       [] i = 4 -> [id |-> 4, username |-> "dave",
                    pass_hash |-> [fmt |-> "onefield", pw |-> "pwA"],
                    token_slug |-> NULL, token_id |-> NULL, storage_dir |-> Dir4]
       [] OTHER -> [id |-> 5, username |-> "erin",
                    pass_hash |-> [fmt |-> "badbase64", pw |-> "pwA"],
                    token_slug |-> NULL, token_id |-> NULL, storage_dir |-> Dir5]]

NoUser == [id |-> NULL, username |-> "", pass_hash |-> [fmt |-> "none", pw |-> ""],
           token_slug |-> NULL, token_id |-> NULL, storage_dir |-> Empty]

Usernames == {"alice", "bob", "carol", "dave", "erin", "mallory", ""}
Passwords == {"pwA", "pwB", ""}

\* --------------------------------------------------------------- tokens
NoToken == [sub |-> NULL, store |-> Empty, exp |-> 0, key |-> NULL]

VARIABLES users, nextUUID, now, inflight, writes, refreshIssued, accessIssued, last

vars == <<users, nextUUID, now, inflight, writes, refreshIssued, accessIssued, last>>

generateUUIDFixed(counter) == 1

\* utils.ts generateUUID: crypto.randomUUID(), a value never drawn before;
\* counter is the number of the draw.
generateUUID(counter) == counter

\* utils.ts getJwtSecret: env.JWT_SECRET, or the built-in fallback; one
\* process-wide key either way.
getJwtSecret == JwtSecret

\* utils.ts verifyPassword, lines 66-67: atob(saltB64) and atob(hashB64) sit
\* in no try block; on a field that is not base64 atob throws and the
\* promise verifyPassword returned rejects.
verifyPasswordThrows(password, storedHash) == storedHash.fmt = "badbase64"

verifyPasswordBcryptCompares(password, storedHash) ==
  storedHash.fmt \in {"pbkdf2", "bcrypt"} /\ storedHash.pw = password

\* utils.ts verifyPassword, the value it resolves to when it does not throw:
\* false for a '$2' hash, false when split(':') leaves a field empty or
\* missing, else whether PBKDF2 of the password equals the stored digest.
verifyPassword(password, storedHash) ==
  IF storedHash.fmt = "bcrypt" THEN FALSE
  ELSE IF storedHash.fmt = "onefield" THEN FALSE
  ELSE storedHash.fmt = "pbkdf2" /\ storedHash.pw = password

createAccessTokenSevenHours(storageDir, secret, t) ==
  [sub |-> NULL, store |-> storageDir, exp |-> t + RefreshTtl, key |-> secret]

\* utils.ts createAccessToken: { store, exp = now + 5m } signed with secret.
createAccessToken(storageDir, secret, t) ==
  [sub |-> NULL, store |-> storageDir, exp |-> t + AccessTtl, key |-> secret]

createRefreshTokenSwapped(tokenId, storageDir, tokenSlug, t) ==
  [sub |-> tokenSlug, store |-> storageDir, exp |-> t + RefreshTtl, key |-> tokenId]

\* utils.ts createRefreshToken: { sub, store, exp = now + 7h } signed with
\* the token slug.
createRefreshToken(tokenId, storageDir, tokenSlug, t) ==
  [sub |-> tokenId, store |-> storageDir, exp |-> t + RefreshTtl, key |-> tokenSlug]

jwtVerifyExpOnly(token, key, t) == t < token.exp

\* jose.jwtVerify(token, key): the signature validates under key and the
\* exp claim is later than the current time; the claims, or a throw.
jwtVerify(token, key, t) == token.key = key /\ t < token.exp

verifyAccessTokenNoExp(token, secret, t) ==
  IF token.key = secret THEN token ELSE NoToken

\* jose SignJWT.sign: the claims travel as base64url(JSON.stringify(claims)),
\* {"sub":"<uuid>","store":"<dir>","exp":n} or {"store":"<dir>","exp":n}.
\* The store value starts at byte 55, or 10, of the JSON: byte k of it is
\* the last byte of a three-byte group when k % 3 = 2, and base64url writes
\* the low six bits of '>' and '~' as '-' and those of '?' as '_'.  The
\* other bytes (punctuation, UUIDs, digits) never yield '-' or '_'.
hasUrlSafeChar(token) ==
  \E k \in 1..Len(token.store) : k % 3 = 2 /\ token.store[k] \in {">", "~", "?"}

\* routes/tokens.ts line 216, JSON.parse(atob(parts[1])): atob reads the
\* standard alphabet; on '-' or '_' a strict atob throws, a lenient one
\* (one that also reads the URL-safe alphabet) decodes.
atobDecodes(token, atobStrict) == ~(atobStrict /\ hasUrlSafeChar(token))

\* utils.ts verifyAccessToken: the claims, or null on any throw.
verifyAccessToken(token, secret, t) ==
  IF jwtVerify(token, secret, t) THEN token ELSE NoToken

verifyRefreshTokenNoSignature(token, tokenSlug, t) ==
  IF t < token.exp THEN token ELSE NoToken

verifyRefreshTokenNoExp(token, tokenSlug, t) ==
  IF token.key = tokenSlug THEN token ELSE NoToken

\* utils.ts verifyRefreshToken: the claims, or null on any throw.
verifyRefreshToken(token, tokenSlug, t) ==
  IF jwtVerify(token, tokenSlug, t) THEN token ELSE NoToken

Min(S) == CHOOSE x \in S : \A y \in S : x <= y

\* utils.ts fetchUserByUsername: first row with that username, or null.
fetchUserByUsername(db, username) ==
  LET hit == {i \in DOMAIN db : db[i].username = username}
  IN IF hit = {} THEN NoUser ELSE db[Min(hit)]

\* utils.ts fetchTokenSlugByTokenId: token_slug of the first row whose
\* token_id equals tokenId (a NULL column equals nothing), or null.
fetchTokenSlugByTokenId(db, tokenId) ==
  LET hit == {i \in DOMAIN db : db[i].token_id # NULL /\ db[i].token_id = tokenId}
  IN IF hit = {} THEN NULL ELSE db[Min(hit)].token_slug

updateUserTokenFieldsSwapped(db, userId, tokenId, tokenSlug) ==
  [i \in DOMAIN db |->
     IF db[i].id = userId
       THEN [db[i] EXCEPT !.token_id = tokenSlug, !.token_slug = tokenId]
       ELSE db[i]]

updateUserTokenFieldsAllRows(db, userId, tokenId, tokenSlug) ==
  [i \in DOMAIN db |-> [db[i] EXCEPT !.token_id = tokenId, !.token_slug = tokenSlug]]

updateUserTokenFieldsIdOnly(db, userId, tokenId, tokenSlug) ==
  [i \in DOMAIN db |->
     IF db[i].id = userId THEN [db[i] EXCEPT !.token_id = tokenId] ELSE db[i]]

\* utils.ts updateUserTokenFields, the UPDATE statement: one atomic write
\* of both columns of the row with that id.
updateUserTokenFields(db, userId, tokenId, tokenSlug) ==
  [i \in DOMAIN db |->
     IF db[i].id = userId
       THEN [db[i] EXCEPT !.token_id = tokenId, !.token_slug = tokenSlug]
       ELSE db[i]]

\* ------------------------------------------------------------ responses
NoCookie == [set |-> FALSE, value |-> NoToken, maxAge |-> 0]
NoWrite == [id |-> NULL, token_id |-> NULL, token_slug |-> NULL]

Idle ==
  [op |-> "none", status |-> 0, error |-> "", body |-> NoToken,
   cookie |-> NoCookie, calls |-> {}, key |-> Empty, token |-> NoToken,
   shape |-> "", username |-> "", password |-> "", wrote |-> NoWrite]

Init ==
  /\ users = InitUsers
  /\ nextUUID = 1
  /\ now = 0
  /\ inflight = {}
  /\ writes = <<>>
  /\ refreshIssued = {}
  /\ accessIssued = {}
  /\ last = Idle

\* The clock moves on between requests.
Tick ==
  /\ \E t \in Instants : t > now /\ now' = t
  /\ last' = Idle
  /\ UNCHANGED <<users, nextUUID, inflight, writes, refreshIssued, accessIssued>>

\* Bookkeeping of the access tokens handed out, each with the time it was
\* issued: at most MaxTracked of them are remembered, any of them.
Track(tok, t) ==
  LET e == [tok |-> tok, iat |-> t]
  IN IF e \in accessIssued \/ Cardinality(accessIssued) < MaxTracked
       THEN {accessIssued \cup {e}}
       ELSE {accessIssued} \cup {(accessIssued \ {x}) \cup {e} : x \in accessIssued}

Reply(op, status, error) ==
  [Idle EXCEPT !.op = op, !.status = status, !.error = error]

LoginStartNamesCause(bodyOk, username, password) ==
  /\ bodyOk /\ username # "" /\ password # ""
  /\ fetchUserByUsername(users, username) = NoUser
  /\ last' = [Reply("login", 404, "User not found") EXCEPT
                !.username = username, !.password = password, !.calls = {"db"}]
  /\ UNCHANGED <<users, nextUUID, now, inflight, writes, refreshIssued, accessIssued>>

\* routes/auth.ts POST /login, lines 19-39: parse the body, look the user
\* up, verify the password, draw the two UUIDs.  The request then waits on
\* the UPDATE.  A throw on the way (c.req.json() on a body that is no JSON,
\* verifyPassword) lands in the handler's catch: 500.
LoginStart(bodyOk, username, password) ==
  LET user == fetchUserByUsername(users, username)
  IN
  IF ~bodyOk THEN
    /\ last' = [Reply("login", 500, "Internal server error") EXCEPT !.username = ""]
    /\ UNCHANGED <<users, nextUUID, now, inflight, writes, refreshIssued, accessIssued>>
  ELSE IF username = "" \/ password = "" THEN
    /\ last' = [Reply("login", 400, "Missing credentials") EXCEPT !.username = username, !.password = password]
    /\ UNCHANGED <<users, nextUUID, now, inflight, writes, refreshIssued, accessIssued>>
  ELSE IF user = NoUser THEN
    /\ last' = [Reply("login", 401, "Unauthorized") EXCEPT !.username = username, !.password = password, !.calls = {"db"}]
    /\ UNCHANGED <<users, nextUUID, now, inflight, writes, refreshIssued, accessIssued>>
  ELSE IF verifyPasswordThrows(password, user.pass_hash) THEN
    /\ last' = [Reply("login", 500, "Internal server error") EXCEPT !.username = username, !.password = password, !.calls = {"db"}]
    /\ UNCHANGED <<users, nextUUID, now, inflight, writes, refreshIssued, accessIssued>>
  ELSE IF ~verifyPassword(password, user.pass_hash) THEN
    /\ last' = [Reply("login", 401, "Unauthorized") EXCEPT !.username = username, !.password = password, !.calls = {"db"}]
    /\ UNCHANGED <<users, nextUUID, now, inflight, writes, refreshIssued, accessIssued>>
  ELSE
    /\ nextUUID + 1 <= MaxUUID
    /\ Cardinality(inflight) < MaxInflight
    /\ inflight' = inflight \cup
         {[username |-> username, password |-> password, user |-> user,
           newTokenId |-> generateUUID(nextUUID),
           newTokenSlug |-> generateUUID(nextUUID + 1), pc |-> "update", wrote |-> NoWrite]}
    /\ nextUUID' = nextUUID + 2
    /\ last' = Idle
    /\ UNCHANGED <<users, now, writes, refreshIssued, accessIssued>>

LoginUpdateIgnoresResult(r, dbOk) ==
  /\ r \in inflight
  /\ r.pc = "update"
  /\ inflight' = (inflight \ {r}) \cup {[r EXCEPT !.pc = "mint"]}
  /\ last' = Idle
  /\ UNCHANGED <<users, nextUUID, now, writes, refreshIssued, accessIssued>>

\* routes/auth.ts POST /login, lines 41-45: the UPDATE.  dbOk is the
\* database's answer (result.success); changes is the number of rows the
\* WHERE clause matched.
LoginUpdate(r, dbOk) ==
  /\ r \in inflight
  /\ r.pc = "update"
  /\ LET w == [id |-> r.user.id, token_id |-> r.newTokenId, token_slug |-> r.newTokenSlug]
         written == updateUserTokenFields(users, r.user.id, r.newTokenId, r.newTokenSlug)
         changes == Cardinality({i \in DOMAIN users : users[i].id = r.user.id})
         updated == dbOk /\ changes > 0
     IN IF updated THEN
          /\ users' = written
          /\ writes' = Append(writes, w)
          /\ inflight' = (inflight \ {r}) \cup {[r EXCEPT !.pc = "mint", !.wrote = w]}
          /\ last' = Idle
          /\ UNCHANGED <<nextUUID, now, refreshIssued, accessIssued>>
        ELSE
          /\ last' = [Reply("login", 500, "Internal server error")
                        EXCEPT !.username = r.username, !.password = r.password, !.calls = {"db"}]
          /\ inflight' = inflight \ {r}
          /\ UNCHANGED <<users, nextUUID, now, writes, refreshIssued, accessIssued>>

\* routes/auth.ts POST /login, lines 50-70: mint both tokens, set the
\* cookie, answer 200.  signOk = FALSE is a throw from the signing calls,
\* which the handler's catch turns into a 500.
LoginMint(r, signOk) ==
  /\ r \in inflight
  /\ r.pc = "mint"
  /\ inflight' = inflight \ {r}
  /\ LET secret == getJwtSecret
         accessToken == createAccessToken(r.user.storage_dir, secret, now)
         refreshToken == createRefreshToken(r.newTokenId, r.user.storage_dir,
                                            r.newTokenSlug, now)
     IN IF signOk THEN
          /\ last' = [Reply("login", 200, "") EXCEPT
                        !.username = r.username, !.password = r.password, !.calls = {"db", "sign"}, !.wrote = r.wrote,
                        !.body = accessToken,
                        !.cookie = [set |-> TRUE, value |-> refreshToken,
                                    maxAge |-> CookieMaxAge]]
          /\ refreshIssued' = refreshIssued \cup {refreshToken}
          /\ accessIssued' \in Track(accessToken, now)
        ELSE
          /\ last' = [Reply("login", 500, "Internal server error") EXCEPT
                        !.username = r.username, !.password = r.password, !.calls = {"db", "sign"}, !.wrote = r.wrote]
          /\ UNCHANGED <<refreshIssued, accessIssued>>
  /\ UNCHANGED <<users, nextUUID, now, writes>>

\* The worker is stopped between two awaits of a login: no response.
Crash(r) ==
  /\ r \in inflight
  /\ inflight' = inflight \ {r}
  /\ last' = Idle
  /\ UNCHANGED <<users, nextUUID, now, writes, refreshIssued, accessIssued>>

LogoutClearsSlots ==
  /\ last' = [Reply("logout", 200, "") EXCEPT
                !.cookie = [set |-> TRUE, value |-> NoToken, maxAge |-> 0 - 1]]
  /\ users' = [i \in DOMAIN users |->
                 [users[i] EXCEPT !.token_id = NULL, !.token_slug = NULL]]
  /\ UNCHANGED <<nextUUID, now, inflight, writes, refreshIssued, accessIssued>>

\* routes/auth.ts POST /logout: the handler reads nothing of the request.
Logout ==
  /\ last' = [Reply("logout", 200, "") EXCEPT
                !.cookie = [set |-> TRUE, value |-> NoToken, maxAge |-> 0 - 1]]
  /\ UNCHANGED <<users, nextUUID, now, inflight, writes, refreshIssued, accessIssued>>

\* ------------------------------------------------------------- refresh
\* What a client can put in the refresh-tok cookie: nothing, text that is
\* no three-part token, a middle part that is not base64 JSON, a middle
\* part that decodes to JSON null, or a token.
Shapes == {"absent", "parts", "undecodable", "null", "jwt"}

\* Keys some token can be signed with in the current state.
KeysInUse ==
  {JwtSecret, AttackerKey} \cup ({users[i].token_slug : i \in DOMAIN users} \ {NULL})

\* Tokens presented besides the issued ones: an issued refresh token with
\* its store or exp rewritten, or the same claims under another key; a
\* token for a token id no row holds.
Variants(t) ==
  {[t EXCEPT !.key = k] : k \in KeysInUse \ {t.key}}
    \cup {[t EXCEPT !.store = d, !.key = AttackerKey] : d \in {Dir1, Dir2, DirTilde} \ {t.store}}
    \cup {[t EXCEPT !.exp = FarFuture, !.key = AttackerKey]}

PresentedTokens ==
  refreshIssued \cup {a.tok : a \in accessIssued}
    \cup UNION {Variants(t) : t \in refreshIssued}
    \cup {[sub |-> UnknownUUID, store |-> Dir1, exp |-> FarFuture, key |-> AttackerKey]}

Cookies ==
  {[shape |-> sh, tok |-> NoToken] : sh \in Shapes \ {"jwt"}}
    \cup {[shape |-> "jwt", tok |-> t] : t \in PresentedTokens}

refreshTrustsPayload(cookie, atobStrict) ==
  LET tok == cookie.tok
      R(status, error, calls) ==
        [Reply("refresh", status, error) EXCEPT
           !.shape = cookie.shape, !.token = tok, !.calls = calls]
  IN
  IF cookie.shape = "absent" THEN R(401, "No refresh token", {})
  ELSE IF cookie.shape = "parts" THEN R(401, "Invalid token format", {})
  ELSE IF cookie.shape = "undecodable" THEN R(401, "Invalid token", {})
  ELSE IF ~atobDecodes(tok, atobStrict) THEN R(401, "Invalid token", {})
  ELSE IF cookie.shape = "null" THEN R(500, "Internal server error", {})
  ELSE IF tok.sub = NULL THEN R(401, "Invalid token payload", {})
  ELSE [R(200, "", {"sign"}) EXCEPT
          !.body = createAccessToken(tok.store, getJwtSecret, now)]

\* routes/tokens.ts POST /refresh: the response to a cookie, in the current
\* state.  The handler reads the database once and writes nothing.
refresh(cookie, atobStrict) ==
  LET tok == cookie.tok
      R(status, error, calls) ==
        [Reply("refresh", status, error) EXCEPT
           !.shape = cookie.shape, !.token = tok, !.calls = calls]
      tokenSlug == fetchTokenSlugByTokenId(users, tok.sub)
      claims == verifyRefreshToken(tok, tokenSlug, now)
  IN
  IF cookie.shape = "absent" THEN R(401, "No refresh token", {})
  ELSE IF cookie.shape = "parts" THEN R(401, "Invalid token format", {})
  ELSE IF cookie.shape = "undecodable" THEN R(401, "Invalid token", {})
  ELSE IF ~atobDecodes(tok, atobStrict) THEN R(401, "Invalid token", {})
  ELSE IF cookie.shape = "null" THEN R(500, "Internal server error", {})
  ELSE IF tok.sub = NULL THEN R(401, "Invalid token payload", {})
  ELSE IF tokenSlug = NULL THEN R(401, "Token not found", {"db"})
  ELSE IF claims = NoToken THEN R(401, "Invalid or expired token", {"db", "verify"})
  ELSE [R(200, "", {"db", "verify", "sign"}) EXCEPT
          !.body = createAccessToken(claims.store, getJwtSecret, now)]

RefreshConsumesSlot(cookie, atobStrict) ==
  /\ last' = refresh(cookie, atobStrict)
  /\ accessIssued' \in IF last'.status = 200 THEN Track(last'.body, now) ELSE {accessIssued}
  /\ users' = [i \in DOMAIN users |->
                 IF last'.status = 200 /\ users[i].token_id = cookie.tok.sub
                   THEN [users[i] EXCEPT !.token_id = NULL, !.token_slug = NULL]
                   ELSE users[i]]
  /\ UNCHANGED <<nextUUID, now, inflight, writes, refreshIssued>>

\* The handler touches shared state once, at the SELECT; what follows works
\* on the request's own values, so the request takes effect at that read.
\* atobStrict is the runtime's atob, see atobDecodes.
Refresh(cookie, atobStrict) ==
  /\ last' = refresh(cookie, atobStrict)
  /\ accessIssued' \in IF last'.status = 200 THEN Track(last'.body, now) ELSE {accessIssued}
  /\ UNCHANGED <<users, nextUUID, now, inflight, writes, refreshIssued>>

\* --------------------------------------------------------- file routes
RomsPrefix == <<"r", "o", "m", "s", "/">>
SavesPrefix == <<"s", "a", "v", "e", "s", "/">>
Slash == <<"/">>

FileUpper == <<"a", ".", "G", "B">>
FileSav == <<"a", ".", "s", "a", "v">>
FileDotDot == <<".", ".", "/", "d", "2", "/", "a", ".", "g", "b">>
FileNames == {FileUpper, FileSav, FileDotDot}

\* String.prototype.toLowerCase on one character.
lower(c) == CASE c = "G" -> "g" [] c = "B" -> "b" [] OTHER -> c

toLowerCase(s) == [i \in 1..Len(s) |-> lower(s[i])]

\* String.prototype.lastIndexOf('.'), counted from 1; 0 when there is none
\* (JavaScript's -1).
lastIndexOf(s, c) ==
  LET at == {i \in 1..Len(s) : s[i] = c}
  IN IF at = {} THEN 0 ELSE CHOOSE i \in at : \A j \in at : j <= i

\* routes/files.ts: file.name.toLowerCase().slice(file.name.lastIndexOf('.')).
\* slice(-1) is the last character.
extension(name) ==
  LET i == lastIndexOf(name, ".")
      from == IF i = 0 THEN Len(name) ELSE i
  IN IF Len(name) = 0 THEN Empty ELSE SubSeq(toLowerCase(name), from, Len(name))

validExtensions ==
  {<<".", "g", "b", "a">>, <<".", "g", "b", "c">>, <<".", "g", "b">>,
   <<".", "z", "i", "p">>, <<".", "7", "z">>}

Ops == {"rom/list", "rom/download", "rom/upload",
        "save/list", "save/download", "save/upload"}

IsRom(op) == op \in {"rom/list", "rom/download", "rom/upload"}
IsList(op) == op \in {"rom/list", "save/list"}
IsDownload(op) == op \in {"rom/download", "save/download"}

prefixOfKindOnly(op, storePath) == IF IsRom(op) THEN RomsPrefix ELSE SavesPrefix

\* `roms/${storePath}/` and `saves/${storePath}/`.
prefixOf(op, storePath) ==
  (IF IsRom(op) THEN RomsPrefix ELSE SavesPrefix) \o storePath \o Slash

guardNoReject(op, auth) ==
  LET R(error, calls) ==
        [Reply(op, 401, error) EXCEPT !.shape = auth.scheme, !.token = auth.tok,
                                      !.calls = calls]
  IN IF auth.scheme # "bearer" THEN [pass |-> FALSE, resp |-> R("Unauthorized", {})]
     ELSE [pass |-> TRUE, resp |-> Idle, storePath |-> auth.tok.store]

guardRevokedByRotation(op, auth) ==
  LET R(error, calls) ==
        [Reply(op, 401, error) EXCEPT !.shape = auth.scheme, !.token = auth.tok,
                                      !.calls = calls]
      claims == verifyAccessToken(auth.tok, getJwtSecret, now)
      rotated == \E i \in DOMAIN users :
                   /\ users[i].storage_dir = claims.store
                   /\ Cardinality({k \in DOMAIN writes : writes[k].id = users[i].id}) > 1
  IN IF auth.scheme # "bearer" THEN [pass |-> FALSE, resp |-> R("Unauthorized", {})]
     ELSE IF claims = NoToken \/ rotated
       THEN [pass |-> FALSE, resp |-> R("Invalid or expired token", {"verify"})]
     ELSE [pass |-> TRUE, resp |-> Idle, storePath |-> claims.store]

\* index.ts app.use('/api/rom/*') and app.use('/api/save/*'): the verified
\* claims, or the 401 the middleware answers with.  auth is the
\* Authorization header: absent, another scheme, or 'Bearer <token>'.
guard(op, auth) ==
  LET R(error, calls) ==
        [Reply(op, 401, error) EXCEPT !.shape = auth.scheme, !.token = auth.tok,
                                      !.calls = calls]
      claims == verifyAccessToken(auth.tok, getJwtSecret, now)
  IN IF auth.scheme # "bearer" THEN [pass |-> FALSE, resp |-> R("Unauthorized", {})]
     ELSE IF claims = NoToken
       THEN [pass |-> FALSE, resp |-> R("Invalid or expired token", {"verify"})]
     ELSE [pass |-> TRUE, resp |-> Idle, storePath |-> claims.store]

\* routes/files.ts getStorePath.
getStorePath(g) == g.storePath

\* routes/files.ts: the six handlers behind the middleware.  file is the
\* rom/save query parameter or form field; r2 is the bucket's answer.
handler(op, auth, storePath, file, r2) ==
  LET R(status, error, key) ==
        [Reply(op, status, error) EXCEPT
           !.shape = auth.scheme, !.token = auth.tok,
           !.calls = IF key = Empty THEN {"verify"} ELSE {"verify", "storage"},
           !.key = key]
      prefix == prefixOf(op, storePath)
      key == prefix \o file.name
  IN
  IF storePath = Empty THEN R(401, "Unauthorized", Empty)
  ELSE IF IsList(op) THEN
    IF r2 = "throw" THEN R(500, "Internal server error", prefix) ELSE R(200, "", prefix)
  ELSE IF IsDownload(op) THEN
    IF ~file.present \/ file.name = Empty THEN R(400, "Missing parameter", Empty)
    ELSE IF r2 = "throw" THEN R(500, "Internal server error", key)
    ELSE IF r2 = "missing" THEN R(404, "Not found", key)
    ELSE R(200, "", key)
  ELSE
    IF ~file.present THEN R(400, "Missing file", Empty)
    ELSE IF IsRom(op) /\ extension(file.name) \notin validExtensions
      THEN R(400, "Invalid file format", Empty)
    ELSE IF r2 = "throw" THEN R(500, "Internal server error", key)
    ELSE R(200, "", key)

\* A request to a protected route: middleware, then handler.
storage(op, auth, file, r2) ==
  LET g == guard(op, auth)
  IN IF g.pass THEN handler(op, auth, getStorePath(g), file, r2) ELSE g.resp

Auths ==
  {[scheme |-> sc, tok |-> NoToken] : sc \in {"none", "basic"}}
    \cup {[scheme |-> "bearer", tok |-> t] :
            t \in {a.tok : a \in accessIssued} \cup refreshIssued
                    \cup {[sub |-> NULL, store |-> Dir2, exp |-> FarFuture,
                           key |-> AttackerKey]}}

Files ==
  {[present |-> FALSE, name |-> Empty]} \cup {[present |-> TRUE, name |-> n] : n \in FileNames}

\* The inputs a request's outcome depends on: no file and no bucket answer
\* for a request the middleware stops, no file for a listing, a bucket
\* answer only for a request that reaches the bucket.
FilesFor(op, auth) ==
  IF ~guard(op, auth).pass \/ IsList(op) THEN {[present |-> FALSE, name |-> Empty]} ELSE Files

R2Answers(op, auth, file) ==
  IF storage(op, auth, file, "found").key = Empty THEN {"found"}
  ELSE IF IsDownload(op) THEN {"found", "missing", "throw"}
  ELSE {"found", "throw"}

StorageOp(op, auth, file, r2) ==
  /\ last' = storage(op, auth, file, r2)
  /\ UNCHANGED <<users, nextUUID, now, inflight, writes, refreshIssued, accessIssued>>

Next ==
  \/ Tick
  \/ \E b \in BOOLEAN, u \in Usernames, p \in Passwords : LoginStart(b, u, p)
  \/ \E r \in inflight, ok \in BOOLEAN : LoginUpdate(r, ok)
  \/ \E r \in inflight, ok \in BOOLEAN : LoginMint(r, ok)
  \/ \E r \in inflight : Crash(r)
  \/ Logout
  \/ \E c \in Cookies, strict \in BOOLEAN : Refresh(c, strict)

Spec == Init /\ [][Next]_vars

\* The protected routes, with the sessions that feed them: logins of alice
\* and bob, one at a time, logouts, refreshes with issued cookies, and every
\* request to the six file routes.
NextFiles ==
  \/ Tick
  \/ \E u \in {"alice", "bob"}, p \in {"pwA", "pwB"} :
       inflight = {} /\ LoginStart(TRUE, u, p)
  \/ \E r \in inflight : LoginUpdate(r, TRUE)
  \/ \E r \in inflight : LoginMint(r, TRUE)
  \/ Logout
  \/ \E t \in refreshIssued, strict \in BOOLEAN :
       Refresh([shape |-> "jwt", tok |-> t], strict)
  \/ \E op \in Ops, a \in Auths :
       \E f \in FilesFor(op, a) : \E r2 \in R2Answers(op, a, f) : StorageOp(op, a, f, r2)

SpecFiles == Init /\ [][NextFiles]_vars
\* ================================================================ claims
Jwt(t) == [shape |-> "jwt", tok |-> t]

\* What the refresh endpoint answers to token t: under some atob, under
\* either atob.
MayAccept(t) == \E strict \in BOOLEAN : refresh(Jwt(t), strict).status = 200
Accepts(t) == \A strict \in BOOLEAN : refresh(Jwt(t), strict).status = 200
Rejects(t) == \A strict \in BOOLEAN : refresh(Jwt(t), strict).status = 401

\* The slot writes that stored the pair a token carries.
WriteOf(t) ==
  {k \in DOMAIN writes : writes[k].token_id = t.sub /\ writes[k].token_slug = t.key}

\* A later write for the same user followed the write of t's slot.
Superseded(t) ==
  \E k \in WriteOf(t) : \E j \in DOMAIN writes : j > k /\ writes[j].id = writes[k].id

\* t's slot is the one written last for its user.
Current(t) ==
  \E k \in WriteOf(t) : \A j \in DOMAIN writes : writes[j].id = writes[k].id => j <= k

\* The pair is what some row of the users table holds now.
StoredSlot(sub, key) ==
  \E i \in DOMAIN users : users[i].token_id = sub /\ users[i].token_slug = key

\* The pair t carries is what the row of the user it was issued for holds.
StoredSlotOf(t) ==
  \E i \in DOMAIN users :
    /\ users[i].token_id = t.sub /\ users[i].token_slug = t.key
    /\ users[i].storage_dir = t.store
    /\ \E k \in WriteOf(t) : writes[k].id = users[i].id

Minted(resp) == resp.body # NoToken \/ "sign" \in resp.calls

\* C1: once a later login of the same user has rotated the slot, a refresh
\* request that replays a refresh token issued for the earlier slot is
\* answered 401 and mints no access token, expired or not.
C1_ReplayAfterRotationRejected ==
  (last.op = "refresh" /\ last.shape = "jwt" /\ last.token \in refreshIssued
     /\ Superseded(last.token))
    => (last.status = 401 /\ ~Minted(last))

C1_Witness ==
  /\ last.op = "refresh" /\ last.token \in refreshIssued
  /\ Superseded(last.token) /\ now < last.token.exp
  /\ \E t \in refreshIssued : t.store = last.token.store /\ Current(t)
  /\ last.status = 401

\* C2: in every state, of the refresh tokens issued so far the refresh
\* endpoint accepts only those whose sub and signing slug are the
\* (token_id, token_slug) pair now stored in their user's row, so at most
\* one slot per user; and every refresh answered 200 was for such a token.
C2_OneValidSlotPerUser ==
  /\ \A t \in refreshIssued :
       MayAccept(t) => StoredSlotOf(t)
  /\ \A i \in DOMAIN users :
       Cardinality({<<t.sub, t.key>> : t \in
          {x \in refreshIssued : MayAccept(x)
                                   /\ \E k \in WriteOf(x) : writes[k].id = users[i].id}}) <= 1
  /\ (last.op = "refresh" /\ last.status = 200 /\ last.token \in refreshIssued)
       => StoredSlotOf(last.token)

C2_Witness ==
  /\ last.op = "refresh" /\ last.status = 200 /\ last.token \in refreshIssued
  /\ \E t \in refreshIssued :
       t.store = last.token.store /\ t.sub # last.token.sub /\ now < t.exp
         /\ Rejects(t)

\* C3: of two logins for the same user, whatever the interleaving of their
\* steps, the row holds the slot of the one whose write came last; refresh
\* accepts that login's token (until it expires) and answers 401 to the
\* other's.
C3_LaterWriteWins ==
  \A i \in DOMAIN writes, j \in DOMAIN writes :
    (i < j /\ writes[i].id = writes[j].id
       /\ \A k \in DOMAIN writes : writes[k].id = writes[j].id => k <= j)
    => /\ \E u \in DOMAIN users :
            /\ users[u].id = writes[j].id
            /\ users[u].token_id = writes[j].token_id
            /\ users[u].token_slug = writes[j].token_slug
       /\ \A t \in refreshIssued :
            /\ (t.sub = writes[i].token_id => Rejects(t))
            /\ (t.sub = writes[j].token_id /\ now < t.exp => Accepts(t))

\* The two logins overlapped: the one that wrote first answered later (its
\* token expires later), and both tokens are out and unexpired.
C3_Witness ==
  \E t1 \in refreshIssued, t2 \in refreshIssued :
    /\ t1.store = t2.store /\ Superseded(t1) /\ Current(t2)
    /\ t1.exp > t2.exp /\ now < t2.exp
    /\ Rejects(t1) /\ Accepts(t2)
    /\ last.op = "login" /\ last.status = 200 /\ last.cookie.value = t1

\* C4: a refresh that presents the token of the user's latest slot write,
\* before the token's expiry, is answered 200 with an access token whose
\* store is the store claim of the refresh token (the user's storage
\* partition) and whose expiry is 300 seconds after the refresh.
C4_RefreshMintsOverTokenStore ==
  (last.op = "refresh" /\ last.shape = "jwt" /\ last.token \in refreshIssued
     /\ Current(last.token) /\ now < last.token.exp)
    => /\ last.status = 200
       /\ last.body.store = last.token.store
       /\ \E k \in WriteOf(last.token) : \E u \in DOMAIN users :
            users[u].id = writes[k].id /\ users[u].storage_dir = last.body.store
       /\ last.body.exp = now + 300
       /\ last.body.key = JwtSecret

C4_Witness ==
  /\ last.op = "refresh" /\ last.token \in refreshIssued /\ Current(last.token)
  /\ now = 25199 /\ now < last.token.exp
  /\ last.status = 200 /\ last.body.store = Dir2 /\ last.body.exp = 25499

\* C5: refresh mints an access token only for a token whose signature
\* verifies under the token_slug stored for its sub and whose exp is still
\* ahead; a well-formed token with a sub, signed with any other key, is
\* answered 401 and nothing is minted.
C5_RefreshOnlyUnderStoredSlug ==
  /\ (last.op = "refresh" /\ Minted(last))
       => /\ last.status = 200 /\ last.shape = "jwt"
          /\ StoredSlot(last.token.sub, last.token.key)
          /\ now < last.token.exp
  /\ (last.op = "refresh" /\ last.shape = "jwt" /\ last.token.sub # NULL
        /\ ~StoredSlot(last.token.sub, last.token.key))
       => (last.status = 401 /\ ~Minted(last))

\* A token for the stored token id, unexpired, signed with a key that is not
\* the stored slug.
C5_Witness ==
  /\ last.op = "refresh" /\ last.shape = "jwt" /\ last.status = 401
  /\ now < last.token.exp
  /\ \E i \in DOMAIN users :
       /\ users[i].token_id = last.token.sub
       /\ users[i].token_slug # last.token.key
       /\ last.token.key \in {JwtSecret, AttackerKey}

\* C6: a login answered 200 carries an access token over the storage
\* partition of the user whose name and password were presented, and a
\* refresh token whose sub is the token id this login wrote, whose store is
\* that partition and whose signing key is the token slug this login wrote.
C6_LoginTokens ==
  (last.op = "login" /\ last.status = 200)
    => \E i \in DOMAIN users :
         /\ users[i].username = last.username
         /\ users[i].pass_hash = [fmt |-> "pbkdf2", pw |-> last.password]
         /\ last.body.store = users[i].storage_dir
         /\ last.body.sub = NULL
         /\ last.body.key = JwtSecret
         /\ \E k \in DOMAIN writes : writes[k] = last.wrote
         /\ last.wrote.id = users[i].id
         /\ last.cookie.set
         /\ last.cookie.value.sub = last.wrote.token_id
         /\ last.cookie.value.sub # NULL
         /\ last.cookie.value.store = users[i].storage_dir
         /\ last.cookie.value.key = last.wrote.token_slug

C6_Witness ==
  /\ last.op = "login" /\ last.status = 200 /\ last.username = "bob"
  /\ last.body.store = Dir2 /\ last.cookie.value.store = Dir2
  /\ last.cookie.value.sub = 3 /\ last.cookie.value.key = 4
  /\ users[2].token_id = 3 /\ users[2].token_slug = 4
\* C7: a file route touches the bucket only for a request whose header is
\* 'Bearer <token>' with a token that verifies under the global secret and
\* is unexpired; without the header or with another scheme the answer is
\* 401 before any verification, database or bucket access; with a token
\* that is invalid or expired it is 401 with no bucket access.
C7_StorageOnlyBehindGuard ==
  last.op \in Ops =>
    /\ ("storage" \in last.calls \/ last.key # Empty)
         => (last.shape = "bearer" /\ last.token.key = JwtSecret /\ now < last.token.exp)
    /\ last.shape # "bearer"
         => (last.status = 401 /\ last.calls = {} /\ last.key = Empty)
    /\ (last.shape = "bearer" /\ ~(last.token.key = JwtSecret /\ now < last.token.exp))
         => (last.status = 401 /\ "storage" \notin last.calls /\ last.key = Empty)
    /\ "db" \notin last.calls

\* An access token the server issued, presented after its expiry.
C7_Witness ==
  /\ last.op = "save/upload" /\ last.shape = "bearer"
  /\ \E a \in accessIssued : a.tok = last.token
  /\ last.token.key = JwtSecret /\ now > last.token.exp
  /\ last.status = 401 /\ last.key = Empty

\* C8: the key or list prefix of every bucket access starts with
\* 'roms/<P>/' or 'saves/<P>/', P being the store claim of the token the
\* request was verified with, and with no other user's partition prefix,
\* whatever file name the request supplies.
C8_KeysUnderOwnPartition ==
  (last.op \in Ops /\ last.key # Empty)
    => LET P == last.token.store
           kind == IF last.op \in {"rom/list", "rom/download", "rom/upload"}
                     THEN RomsPrefix ELSE SavesPrefix
       IN /\ StartsWith(last.key, kind \o P \o Slash)
          /\ \A i \in DOMAIN users :
               users[i].storage_dir # P
                 => /\ ~StartsWith(last.key, RomsPrefix \o users[i].storage_dir \o Slash)
                    /\ ~StartsWith(last.key, SavesPrefix \o users[i].storage_dir \o Slash)

\* alice's token with a file name that names bob's partition.
C8_Witness ==
  /\ last.op = "rom/upload" /\ last.status = 200
  /\ last.token.store = Dir1
  /\ last.key = RomsPrefix \o Dir1 \o Slash \o FileDotDot

\* C9: an access token issued at time t, by login or by refresh, passes the
\* access guard at every time before t + 300 and is answered 401 at every
\* time after t + 300.
C9_AccessTokenLifetime ==
  \A a \in accessIssued :
    /\ now < a.iat + 300
         => /\ guard("rom/list", [scheme |-> "bearer", tok |-> a.tok]).pass
            /\ guard("save/list", [scheme |-> "bearer", tok |-> a.tok]).pass
            /\ (last.op \in Ops /\ last.shape = "bearer" /\ last.token = a.tok)
                 => last.status # 401
    /\ now > a.iat + 300
         => /\ ~guard("rom/list", [scheme |-> "bearer", tok |-> a.tok]).pass
            /\ ~guard("save/list", [scheme |-> "bearer", tok |-> a.tok]).pass
            /\ (last.op \in Ops /\ last.shape = "bearer" /\ last.token = a.tok)
                 => last.status = 401

\* An access token issued at time 0 is presented to a protected route at
\* time 301 and the guard answers 401.
C9_Witness ==
  /\ now = 301 /\ last.op \in Ops /\ last.shape = "bearer" /\ last.status = 401
  /\ \E a \in accessIssued : a.tok = last.token /\ a.iat = 0

\* C10: a refresh token expires 25200 s after the login that issued it; a
\* refresh response never carries a cookie, so nothing replaces or extends
\* it; a refresh with it after that time is answered 401, and whenever a
\* refresh with it mints an access token the time is before its expiry.
C10_RefreshLifetimeFixed ==
  /\ (last.op = "login" /\ last.status = 200)
       => (last.cookie.value.exp = now + 25200 /\ last.cookie.maxAge = 25200)
  /\ last.op = "refresh" => (~last.cookie.set /\ last.cookie.value = NoToken)
  /\ (last.op = "refresh" /\ last.shape = "jwt" /\ last.token \in refreshIssued
        /\ now > last.token.exp)
       => (last.status = 401 /\ ~Minted(last))
  /\ (last.op = "refresh" /\ last.token \in refreshIssued /\ Minted(last))
       => (now < last.token.exp /\ last.body.exp - 300 < last.token.exp)

C10_Witness ==
  /\ last.op = "refresh" /\ last.token \in refreshIssued /\ Current(last.token)
  /\ last.token.exp = 25200 /\ now = 25201
  /\ last.status = 401 /\ ~Minted(last)

\* C11: a step that answers a refresh request, with 200, 401 or 500, leaves
\* the users table as it was: every row's token_id, token_slug, pass_hash
\* and storage_dir.
C11_RefreshLeavesUsers ==
  [][last'.op = "refresh"
       => /\ last'.status \in {200, 401, 500}
          /\ \A i \in DOMAIN users :
               /\ users'[i].token_id = users[i].token_id
               /\ users'[i].token_slug = users[i].token_slug
               /\ users'[i].pass_hash = users[i].pass_hash
               /\ users'[i].storage_dir = users[i].storage_dir]_vars

\* A refresh answered 200 with the token of the slot a row holds: the row
\* still holds that slot.
C11_Witness ==
  /\ last.op = "refresh" /\ last.status = 200
  /\ \E i \in DOMAIN users :
       users[i].token_id = last.token.sub /\ users[i].token_slug = last.token.key

CorrectCredentials(username, password) ==
  \E i \in DOMAIN users :
    /\ users[i].username = username
    /\ users[i].pass_hash = [fmt |-> "pbkdf2", pw |-> password]

\* C13: a login with correct credentials whose slot write did not take
\* effect (the database reported failure or no row changed) is answered 500
\* with no access token in the body and no cookie; and every refresh token
\* handed out carries a pair that a slot write stored.
C13_FailedWriteIssuesNothing ==
  /\ (last.op = "login" /\ CorrectCredentials(last.username, last.password)
        /\ last.wrote = NoWrite)
       => /\ last.status = 500
          /\ last.error = "Internal server error"
          /\ ~Minted(last)
          /\ last.cookie = NoCookie
  /\ \A t \in refreshIssued : WriteOf(t) # {}
  /\ \A a \in accessIssued : \E k \in DOMAIN writes : \E i \in DOMAIN users :
       users[i].id = writes[k].id /\ users[i].storage_dir = a.tok.store

\* bob's login with the right password, failed at the write: nothing was
\* written for bob and no token of his is out.
C13_Witness ==
  /\ last.op = "login" /\ last.status = 500
  /\ last.username = "bob" /\ last.password = "pwB"
  /\ last.wrote = NoWrite /\ last.calls = {"db"}
  /\ users[2].token_id = NULL
  /\ \A t \in refreshIssued : t.store # Dir2

\* C14: every login response either is a 200 that carries both tokens, from
\* a request that rotated the slot, or carries no token, from a request that
\* left the stored slot as it was, a request whose signing failed after the
\* write included.
C14_IssuanceAllOrNothing ==
  last.op = "login"
    => \/ /\ last.status = 200
          /\ last.body # NoToken /\ last.cookie.set /\ last.cookie.value # NoToken
          /\ last.wrote # NoWrite
       \/ /\ last.body = NoToken /\ ~last.cookie.set
          /\ last.wrote = NoWrite

\* alice's second login wrote its slot, then signing threw: the answer is
\* 500 without tokens, the row holds the slot of that login, and the refresh
\* token of her first login, unexpired, is rejected from now on.
C14_Witness ==
  /\ last.op = "login" /\ last.status = 500 /\ last.username = "alice"
  /\ last.body = NoToken /\ ~last.cookie.set
  /\ last.wrote # NoWrite
  /\ users[1].token_id = last.wrote.token_id
  /\ users[1].token_slug = last.wrote.token_slug
  /\ \A t \in refreshIssued : t.sub # last.wrote.token_id
  /\ \E t \in refreshIssued : t.store = Dir1 /\ now < t.exp /\ Rejects(t)

\* C15: a login answered 401 is answered with one and the same response,
\* status 401, body { error: 'Unauthorized' } and no cookie, whether the
\* username is unknown or the password is wrong; and both cases are
\* answered 401.
C15_LoginRejectionsAlike ==
  /\ (last.op = "login" /\ last.status = 401)
       => [last EXCEPT !.username = "", !.password = "", !.calls = {}]
            = Reply("login", 401, "Unauthorized")
  /\ (last.op = "login" /\ last.username # "" /\ last.password # ""
        /\ \/ fetchUserByUsername(users, last.username) = NoUser
           \/ fetchUserByUsername(users, last.username).pass_hash.fmt = "pbkdf2"
                /\ fetchUserByUsername(users, last.username).pass_hash.pw # last.password)
       => last.status = 401

\* A login for a name no row has.
C15_Witness ==
  /\ last.op = "login" /\ last.username = "mallory" /\ last.password = "pwA"
  /\ fetchUserByUsername(users, last.username) = NoUser
  /\ last.status = 401 /\ last.error = "Unauthorized" /\ last.cookie = NoCookie

\* C16: any two requests the refresh endpoint rejects with 401 get the same
\* body, and so do any two requests the access guard rejects, whatever the
\* cause: no token, a malformed one, an unknown token id, a forged
\* signature, an expired token.
C16_RejectionsIdentical ==
  /\ \A c1 \in Cookies, c2 \in Cookies : \A s1 \in BOOLEAN, s2 \in BOOLEAN :
       (refresh(c1, s1).status = 401 /\ refresh(c2, s2).status = 401)
         => refresh(c1, s1).error = refresh(c2, s2).error
  /\ \A a1 \in Auths, a2 \in Auths : \A op \in Ops :
       (~guard(op, a1).pass /\ ~guard(op, a2).pass)
         => /\ guard(op, a1).resp.status = guard(op, a2).resp.status
            /\ guard(op, a1).resp.error = guard(op, a2).resp.error

\* A replayed token of a rotated slot is told 'Token not found' in a state
\* where the same claims under a forged signature for the stored id are
\* told 'Invalid or expired token'.
C16_Witness ==
  /\ last.op = "refresh" /\ last.status = 401 /\ last.error = "Token not found"
  /\ last.token \in refreshIssued /\ Superseded(last.token)
  /\ \E c \in Cookies :
       /\ c.shape = "jwt" /\ c.tok.key = AttackerKey
       /\ refresh(c, TRUE).status = 401
       /\ refresh(c, TRUE).error = "Invalid or expired token"

\* C17: a refresh whose cookie is not three dot-separated parts, or whose
\* middle part does not decode, or decodes to JSON that is no object (null),
\* or to an object without sub, is answered 401, never 500, and mints no
\* access token.
C17_MalformedCookieUnauthorized ==
  (last.op = "refresh"
     /\ \/ last.shape \in {"parts", "undecodable", "null"}
        \/ last.shape = "jwt" /\ last.token.sub = NULL)
    => (last.status = 401 /\ ~Minted(last))

\* The middle part is base64 of the JSON text null.
C17_Witness ==
  /\ last.op = "refresh" /\ last.shape = "null"
  /\ last.status = 500 /\ last.error = "Internal server error"
  /\ ~Minted(last)

Malformed(storedHash) == storedHash.fmt \in {"onefield", "badbase64"}

\* C18: for a stored hash with the wrong number of fields or with a field
\* that is not base64, verifyPassword resolves to false for every password
\* and does not throw; a login against such a row is answered 401, not 500,
\* and writes nothing.
C18_MalformedHashFailsClosed ==
  /\ \A i \in DOMAIN users : \A p \in Passwords :
       Malformed(users[i].pass_hash)
         => /\ ~verifyPasswordThrows(p, users[i].pass_hash)
            /\ ~verifyPassword(p, users[i].pass_hash)
  /\ (last.op = "login" /\ last.password # ""
        /\ Malformed(fetchUserByUsername(users, last.username).pass_hash))
       => (last.status = 401 /\ last.wrote = NoWrite)

\* erin's stored hash has a field that atob does not decode.
C18_Witness ==
  /\ last.op = "login" /\ last.username = "erin" /\ last.password = "pwA"
  /\ users[5].pass_hash.fmt = "badbase64"
  /\ last.status = 500 /\ last.error = "Internal server error"
  /\ last.wrote = NoWrite /\ users[5].token_id = NULL

Legacy(storedHash) == storedHash.fmt = "bcrypt"

\* C19: for a stored hash with leading '$2', verifyPassword resolves to
\* false for every password and does not throw; a login that presents such
\* a user's name and a password is answered 401 without tokens, and no slot
\* is ever written for that user nor a token issued over the partition.
C19_LegacyHashRejected ==
  /\ \A i \in DOMAIN users : \A p \in Passwords :
       Legacy(users[i].pass_hash)
         => /\ ~verifyPasswordThrows(p, users[i].pass_hash)
            /\ ~verifyPassword(p, users[i].pass_hash)
  /\ (last.op = "login" /\ last.password # ""
        /\ Legacy(fetchUserByUsername(users, last.username).pass_hash))
       => /\ last.status = 401
          /\ ~Minted(last) /\ last.cookie = NoCookie
          /\ last.wrote = NoWrite
  /\ \A i \in DOMAIN users :
       Legacy(users[i].pass_hash)
         => /\ users[i].token_id = NULL /\ users[i].token_slug = NULL
            /\ \A k \in DOMAIN writes : writes[k].id # users[i].id
            /\ \A r \in inflight : r.user.id # users[i].id
            /\ \A t \in refreshIssued : t.store # users[i].storage_dir

\* carol, whose bcrypt hash is of pwA, presents pwA.
C19_Witness ==
  /\ last.op = "login" /\ last.username = "carol" /\ last.password = "pwA"
  /\ users[3].pass_hash = [fmt |-> "bcrypt", pw |-> "pwA"]
  /\ last.status = 401 /\ last.wrote = NoWrite /\ users[3].token_id = NULL

\* C20: in every state each row's (token_id, token_slug) is (null, null) or
\* the two UUIDs one login request drew together and passed to its one slot
\* write for that user; it is never the token_id of one write with the
\* token_slug of another.
C20_SlotWrittenWhole ==
  \A i \in DOMAIN users :
    \/ users[i].token_id = NULL /\ users[i].token_slug = NULL
    \/ /\ \E n \in 1..MaxUUID :
            /\ n % 2 = 1
            /\ users[i].token_id = generateUUID(n)
            /\ users[i].token_slug = generateUUID(n + 1)
       /\ \E k \in DOMAIN writes :
            /\ writes[k].id = users[i].id
            /\ writes[k].token_id = users[i].token_id
            /\ writes[k].token_slug = users[i].token_slug
       /\ \A k1 \in DOMAIN writes, k2 \in DOMAIN writes :
            (writes[k1].token_id = users[i].token_id
               /\ writes[k2].token_slug = users[i].token_slug) => k1 = k2

\* Two logins of one user overlapped, the one that drew its UUIDs later
\* wrote first, and both were stopped after their writes: the row holds the
\* pair of the write that came last, whole.
C20_Witness ==
  /\ Len(writes) = 2 /\ writes[1].id = writes[2].id
  /\ writes[1].token_id > writes[2].token_id
  /\ inflight = {} /\ refreshIssued = {} /\ last.op = "none"
  /\ \E i \in DOMAIN users :
       /\ users[i].id = writes[2].id
       /\ users[i].token_id = writes[2].token_id
       /\ users[i].token_slug = writes[2].token_slug

\* C21: a step that changes the users table is the slot write of a login
\* for one user A: it changes A's token_id and token_slug and nothing else
\* of A's row, no other row, and the refresh endpoint answers the refresh
\* token of every other user after the step as it did before.
C21_LoginTouchesOwnSlotOnly ==
  [][users' # users
       => \E a \in DOMAIN users :
            /\ \E r \in inflight : r.pc = "update" /\ r.user.id = users[a].id
            /\ users'[a].token_id # users[a].token_id
            /\ users'[a].token_slug # users[a].token_slug
            /\ users'[a].id = users[a].id
            /\ users'[a].username = users[a].username
            /\ users'[a].pass_hash = users[a].pass_hash
            /\ users'[a].storage_dir = users[a].storage_dir
            /\ \A b \in DOMAIN users : b # a => users'[b] = users[b]
            /\ \A t \in refreshIssued : \A strict \in BOOLEAN :
                 t.store # users[a].storage_dir
                   => refresh(Jwt(t), strict)' = refresh(Jwt(t), strict)]_vars

\* alice's login has just written her slot (it is the last write and her
\* login is still to answer) while bob holds a refresh token: bob's row has
\* the slot of his token and refresh accepts it.
C21_Witness ==
  /\ Len(writes) >= 2 /\ writes[Len(writes)].id = 1
  /\ \E r \in inflight : r.pc = "mint" /\ r.user.id = 1
  /\ \E t \in refreshIssued :
       /\ t.store = Dir2 /\ users[2].token_id = t.sub /\ users[2].token_slug = t.key
       /\ Accepts(t)

Bearer(t) == [scheme |-> "bearer", tok |-> t]

\* C22: in every state, whatever logins have rotated the user's slot and
\* whatever logouts were answered since, an access token the server issued
\* passes the access guard of every file route before its expiry, with its
\* store claim as the store path; a file request that presents it is not
\* answered 401 and touches the bucket only under the prefix of that store.
C22_RotationKeepsAccessTokens ==
  \A a \in accessIssued :
    now < a.tok.exp
      => /\ \A op \in Ops :
              /\ guard(op, Bearer(a.tok)).pass
              /\ getStorePath(guard(op, Bearer(a.tok))) = a.tok.store
         /\ (last.op \in Ops /\ last.shape = "bearer" /\ last.token = a.tok)
              => /\ last.status # 401
                 /\ last.key # Empty
                      => StartsWith(last.key, prefixOf(last.op, a.tok.store))

\* alice's access token of time 0, used at 299 after a second login of
\* alice, answered at 299, rotated her slot: her first refresh token is
\* rejected, the access token still lists her partition.
C22_Witness ==
  /\ now = 299
  /\ last.op = "rom/list" /\ last.status = 200 /\ last.shape = "bearer"
  /\ last.key = RomsPrefix \o Dir1 \o Slash
  /\ \E a \in accessIssued : a.tok = last.token /\ a.iat = 0 /\ a.tok.store = Dir1
  /\ \E t1 \in refreshIssued, t2 \in refreshIssued :
       /\ t1.store = Dir1 /\ t2.store = Dir1
       /\ Superseded(t1) /\ Rejects(t1)
       /\ Current(t2) /\ t2.exp = 299 + RefreshTtl

\* A login answered 200 for the owner of the partition: its refresh token
\* is out, over a slot written for that row, and the row's hash is one a
\* password verifies against.
LoggedIn(store) ==
  \E i \in DOMAIN users :
    /\ users[i].storage_dir = store
    /\ users[i].pass_hash.fmt = "pbkdf2"
    /\ \E t \in refreshIssued :
         /\ t.store = store
         /\ \E k \in WriteOf(t) : writes[k].id = users[i].id

\* C23: with clients that sign only with keys other than the global secret
\* and the stored slugs, every access token the server has issued, and the
\* one in the latest response, is signed with the global secret over the
\* partition of a user for whom a login with the right password was
\* answered 200; a login answers 200 only to the right password; a refresh
\* with claims the client rewrote or signed itself mints nothing.
C23_AccessOnlyAfterOwnersLogin ==
  /\ \A a \in accessIssued : LoggedIn(a.tok.store) /\ a.tok.key = JwtSecret
  /\ last.body # NoToken
       => (LoggedIn(last.body.store) /\ last.body.key = JwtSecret)
  /\ (last.op = "login" /\ last.status = 200)
       => \E i \in DOMAIN users :
            /\ users[i].username = last.username
            /\ users[i].pass_hash = [fmt |-> "pbkdf2", pw |-> last.password]
            /\ users[i].storage_dir = last.body.store
  /\ (last.op = "refresh" /\ last.shape = "jwt" /\ last.token.key = AttackerKey)
       => (last.status = 401 /\ ~Minted(last))

\* alice's current refresh token with the store claim rewritten to bob's
\* partition, while bob has never logged in: 401, nothing minted.
C23_Witness ==
  /\ last.op = "refresh" /\ last.shape = "jwt"
  /\ last.token.store = Dir2 /\ last.token.key = AttackerKey
  /\ users[1].token_id = last.token.sub /\ now < last.token.exp
  /\ ~LoggedIn(Dir2) /\ users[2].token_id = NULL
  /\ last.status = 401 /\ ~Minted(last)
====
